---------------------------- MODULE Spec2Model ----------------------------
(***************************************************************************)
(* kube-rbac-proxy: the authorization configuration (pkg/authz/auth.go)    *)
(* and the request gate (pkg/proxy/proxy.go).                              *)
(*                                                                         *)
(* Go nil is modelled by a "nil" flag on a record of fixed shape: a nil    *)
(* slice is [nil |-> TRUE, elems |-> <<>>] (len 0, ranges over nothing), a *)
(* nil map is [nil |-> TRUE, keys |-> {}], a nil pointer is the record     *)
(* with nil |-> TRUE and zero-valued fields.                               *)
(***************************************************************************)
EXTENDS Naturals, Sequences, FiniteSets

(***************************************************************************)
(* Bound of the model.                                                     *)
(***************************************************************************)
\* Most occurrences of the configured query parameter in one request.
MaxParams == 2

(***************************************************************************)
(* auth.go: the six attribute names.                                       *)
(***************************************************************************)
Namespace == "namespace"
ApiGroup == "apiGroup"
APIVersion == "apiVersion"
Resource == "resource"
Subresource == "subresource"
Name == "name"

\* allResourceAttributesNames := []string{Namespace, ApiGroup, APIVersion, Resource, Subresource, Name}
allResourceAttributesNames == <<Namespace, ApiGroup, APIVersion, Resource, Subresource, Name>>

(***************************************************************************)
(* auth.go: the configuration types.                                       *)
(***************************************************************************)
\* A []string: nil, or a slice with the given elements.
NilSlice == [nil |-> TRUE, elems |-> <<>>]
Slice(s) == [nil |-> FALSE, elems |-> s]

\* A map[string]struct{}: nil, or a map with the given keys.
NilMap == [nil |-> TRUE, keys |-> {}]
MakeMap(k) == [nil |-> FALSE, keys |-> k]

\* *QueryParameterRewriteConfig and *HTTPHeaderRewriteConfig have the same fields.
NilRewriteConfig ==
    [nil |-> TRUE, Name |-> "", RewriteTargets |-> NilSlice, rewriteTargetsSet |-> NilMap]
RewriteConfig(name, targets) ==
    [nil |-> FALSE, Name |-> name, RewriteTargets |-> targets, rewriteTargetsSet |-> NilMap]

\* *SubjectAccessReviewRewrites
NilRewrites ==
    [nil |-> TRUE, ByQueryParameter |-> NilRewriteConfig, ByHTTPHeader |-> NilRewriteConfig]
SubjectAccessReviewRewrites(q, h) ==
    [nil |-> FALSE, ByQueryParameter |-> q, ByHTTPHeader |-> h]

\* *ResourceAttributes
NilResourceAttributes ==
    [nil |-> TRUE, Namespace |-> "", APIGroup |-> "", APIVersion |-> "",
     Resource |-> "", Subresource |-> "", Name |-> ""]
ResourceAttributes(ns, nm) ==
    [nil |-> FALSE, Namespace |-> ns, APIGroup |-> "", APIVersion |-> "v1",
     Resource |-> "pods", Subresource |-> "", Name |-> nm]

\* Config
Config(rw, ra) == [Rewrites |-> rw, ResourceAttributes |-> ra]

(***************************************************************************)
(* The configurations a configuration file can hold.                       *)
(***************************************************************************)
SeqsUpTo(S, n) == UNION {[1..k -> S] : k \in 0..n}

\* rewriteTargets: omitted (nil), empty, or a list of names: two of the six,
\* alone and together, and one name that is none of the six.
TargetLists ==
    {NilSlice, Slice(<<>>), Slice(<<Namespace>>), Slice(<<Name>>), Slice(<<"bogus">>),
     Slice(<<Namespace, Name>>)}

\* A rule: absent, present with nothing set (name "" and no list), or named.
QueryParameterConfigs ==
    {NilRewriteConfig, RewriteConfig("", NilSlice)} \cup
    {RewriteConfig("ns", t) : t \in TargetLists}
HTTPHeaderConfigs ==
    {NilRewriteConfig, RewriteConfig("", NilSlice)} \cup
    {RewriteConfig("X-Proj", t) : t \in TargetLists}

RewritesConfigs ==
    {NilRewrites} \cup
    {SubjectAccessReviewRewrites(q, h) : q \in QueryParameterConfigs, h \in HTTPHeaderConfigs}

\* Template strings of a resource attribute: a literal, the placeholder, a
\* string text/template cannot parse, and one it parses but cannot execute.
TemplateStrings == {"default", "{{.Value}}", "{{", "x{{.Foo}}"}

ResourceAttributesConfigs ==
    {NilResourceAttributes} \cup {ResourceAttributes(ns, "{{.Value}}") : ns \in TemplateStrings}

RawConfigs == {Config(rw, ra) : rw \in RewritesConfigs, ra \in ResourceAttributesConfigs}

(***************************************************************************)
(* auth.go: InitConfig.                                                    *)
(***************************************************************************)
\* Faulty variant: the range starts at the second element.
RangeToSetSkipFirst(targets) == MakeMap({targets.elems[i] : i \in 2..Len(targets.elems)})

\* for _, v := range targets { set[v] = struct{}{} }
RangeToSet(targets) == MakeMap({targets.elems[i] : i \in 1..Len(targets.elems)})

\* What a call of InitConfig leaves: the configuration object as mutated, the
\* returned pointer (nil or the object), the returned error, or a panic.
InitReturn(c, retNil, err) == [cfg |-> c, retNil |-> retNil, err |-> err, panic |-> FALSE]
InitPanic(c) == [cfg |-> c, retNil |-> TRUE, err |-> "nil", panic |-> TRUE]

ErrMissing == "both query param and http header rewrites are specified but rewriteTargets are missing"
ErrAmbiguous == "to avoid ambiguity http header and query paramas rewriteTargets must be mutually exclusive"

\* "if only one of the rewrites is specified try to rewrite all attributes"
DefaultRewriteTargets(rw) ==
    IF ~rw.ByQueryParameter.nil /\ rw.ByHTTPHeader.nil /\ rw.ByQueryParameter.RewriteTargets.nil
    THEN [rw EXCEPT !.ByQueryParameter.RewriteTargets = Slice(allResourceAttributesNames)]
    ELSE IF ~rw.ByHTTPHeader.nil /\ rw.ByQueryParameter.nil /\ rw.ByHTTPHeader.RewriteTargets.nil
    THEN [rw EXCEPT !.ByHTTPHeader.RewriteTargets = Slice(allResourceAttributesNames)]
    ELSE rw

\* "create a set of rewriteTargets to speed up the lookups"
BuildSet(rule) ==
    IF ~rule.nil /\ ~rule.RewriteTargets.nil
    THEN [rule EXCEPT !.rewriteTargetsSet = RangeToSet(rule.RewriteTargets)]
    ELSE rule

\* Faulty variant: an empty list is not told from a given one.
ValidateRewritesNoLenCheck(c) ==
    LET q == c.Rewrites.ByQueryParameter
        h == c.Rewrites.ByHTTPHeader
    IN  IF ~q.nil /\ ~h.nil
        THEN IF q.RewriteTargets.nil \/ h.RewriteTargets.nil
             THEN InitReturn(c, TRUE, ErrMissing)
             ELSE IF \E k \in q.rewriteTargetsSet.keys : k \in h.rewriteTargetsSet.keys
             THEN InitReturn(c, TRUE, ErrAmbiguous)
             ELSE InitReturn(c, FALSE, "nil")
        ELSE InitReturn(c, FALSE, "nil")

\* "check if rewriteTargets are provided and" mutually exclusive
ValidateRewrites(c) ==
    LET q == c.Rewrites.ByQueryParameter
        h == c.Rewrites.ByHTTPHeader
    IN  IF ~q.nil /\ ~h.nil
        THEN IF q.RewriteTargets.nil \/ h.RewriteTargets.nil
             THEN InitReturn(c, TRUE, ErrMissing)
             ELSE IF Len(q.RewriteTargets.elems) = 0 \/ Len(h.RewriteTargets.elems) = 0
             THEN InitReturn(c, TRUE, ErrMissing)
             ELSE IF \E k \in q.rewriteTargetsSet.keys : k \in h.rewriteTargetsSet.keys
             THEN InitReturn(c, TRUE, ErrAmbiguous)
             ELSE InitReturn(c, FALSE, "nil")
        ELSE InitReturn(c, FALSE, "nil")

\* func InitConfig(cfg *Config) (*Config, error)
InitConfig(c) ==
    IF c.Rewrites.nil \/ (c.Rewrites.ByQueryParameter.nil /\ c.Rewrites.ByHTTPHeader.nil)
    THEN InitReturn(c, FALSE, "nil")
    ELSE LET rw1 == DefaultRewriteTargets(c.Rewrites)
             rw2 == [rw1 EXCEPT !.ByQueryParameter = BuildSet(rw1.ByQueryParameter),
                                !.ByHTTPHeader = BuildSet(rw1.ByHTTPHeader)]
         IN  ValidateRewrites([c EXCEPT !.Rewrites = rw2])

\* func InitConfig(cfg *Config) *Config, the earlier variant: the sets are
\* assigned through both rule pointers without a nil check.
InitConfigEarlier(c) ==
    IF c.Rewrites.nil \/ (c.Rewrites.ByQueryParameter.nil /\ c.Rewrites.ByHTTPHeader.nil)
    THEN InitReturn(c, FALSE, "nil")
    ELSE LET rw1 == DefaultRewriteTargets(c.Rewrites)
             c1 == [c EXCEPT !.Rewrites = rw1]
         IN  IF rw1.ByQueryParameter.nil
             THEN InitPanic(c1)
             ELSE LET rw2 == [rw1 EXCEPT !.ByQueryParameter.rewriteTargetsSet =
                                             RangeToSet(rw1.ByQueryParameter.RewriteTargets)]
                      c2 == [c EXCEPT !.Rewrites = rw2]
                  IN  IF rw2.ByHTTPHeader.nil
                      THEN InitPanic(c2)
                      ELSE InitReturn(
                               [c EXCEPT !.Rewrites =
                                   [rw2 EXCEPT !.ByHTTPHeader.rewriteTargetsSet =
                                       RangeToSet(rw2.ByHTTPHeader.RewriteTargets)]],
                               FALSE, "nil")

(***************************************************************************)
(* proxy.go: templateWithValue.  text/template is modelled on the template *)
(* strings of TemplateStrings: Parse yields the node list or an error (and *)
(* then a nil template), Execute writes the nodes in order and stops at    *)
(* the first node it cannot evaluate, keeping what it wrote.               *)
(***************************************************************************)
TextNode(s) == [kind |-> "text", arg |-> s]
FieldNode(f) == [kind |-> "field", arg |-> f]

\* tmpl, _ := template.New("valueTemplate").Parse(templateString)
ParseTemplate(templateString) ==
    CASE templateString = "{{" -> [nil |-> TRUE, nodes |-> <<>>]
      [] templateString = "{{.Value}}" -> [nil |-> FALSE, nodes |-> <<FieldNode("Value")>>]
      [] templateString = "x{{.Foo}}" ->
             [nil |-> FALSE, nodes |-> <<TextNode("x"), FieldNode("Foo")>>]
      [] templateString = "" -> [nil |-> FALSE, nodes |-> <<>>]
      [] OTHER -> [nil |-> FALSE, nodes |-> <<TextNode(templateString)>>]

\* tmpl.Execute(out, struct{ Value string }{Value: value}); return out.String()
RECURSIVE ExecuteFrom(_, _, _, _)
ExecuteFrom(nodes, i, value, out) ==
    IF i > Len(nodes) THEN out
    ELSE IF nodes[i].kind = "text" THEN ExecuteFrom(nodes, i + 1, value, out \o nodes[i].arg)
    ELSE IF nodes[i].arg = "Value" THEN ExecuteFrom(nodes, i + 1, value, out \o value)
    ELSE out

Returned(s) == [panic |-> FALSE, out |-> s]
Panicked == [panic |-> TRUE, out |-> ""]

\* Faulty variant: every field is rendered, targeted or not.
templateWithValueEveryField(attribute, templateString, value, rewriteTargets) ==
    LET tmpl == ParseTemplate(templateString)
    IN  IF tmpl.nil THEN Panicked
        ELSE Returned(ExecuteFrom(tmpl.nodes, 1, value, ""))

\* func templateWithValue(attribute, templateString, value string, rewriteTargets []string) string
templateWithValue(attribute, templateString, value, rewriteTargets) ==
    LET rewrite == \E i \in 1..Len(rewriteTargets.elems) : rewriteTargets.elems[i] = attribute
        tmpl == ParseTemplate(templateString)
    IN  IF ~rewrite THEN Returned(templateString)
        ELSE IF tmpl.nil THEN Panicked
        ELSE Returned(ExecuteFrom(tmpl.nodes, 1, value, ""))

(***************************************************************************)
(* proxy.go: GetRequestAttributes.                                         *)
(***************************************************************************)
RewriteValueSourceQueryParams == "QueryParams"
RewriteValueSourceHTTPHeader == "HTTPHeader"

\* Faulty variant: PUT and PATCH take each other's verb.
ApiVerbPutPatchSwapped(method) ==
    CASE method = "POST" -> "create"
      [] method = "GET" -> "get"
      [] method = "PUT" -> "patch"
      [] method = "PATCH" -> "update"
      [] method = "DELETE" -> "delete"
      [] OTHER -> ""

\* switch r.Method
ApiVerb(method) ==
    CASE method = "POST" -> "create"
      [] method = "GET" -> "get"
      [] method = "PUT" -> "update"
      [] method = "PATCH" -> "patch"
      [] method = "DELETE" -> "delete"
      [] OTHER -> ""

\* r.URL.Query()[name]: every value of the parameter, in the order received.
URLQuery(r, name) == IF name = "ns" THEN r.Query ELSE <<>>

\* r.Header.Get(name): the header's first value, "" when the header is absent.
HeaderGet(r, name) == IF name = "X-Proj" THEN r.Header ELSE ""

\* authorizer.AttributesRecord
AttributesRecord(u, verb, ns, apiGroup, apiVersion, resource, subresource, name, rr, path) ==
    [User |-> u, Verb |-> verb, Namespace |-> ns, APIGroup |-> apiGroup,
     APIVersion |-> apiVersion, Resource |-> resource, Subresource |-> subresource,
     Name |-> name, ResourceRequest |-> rr, Path |-> path]

\* The rewriteParameters collected from the request.
QueryParameters(rw, r) ==
    IF ~rw.ByQueryParameter.nil /\ rw.ByQueryParameter.Name # ""
    THEN LET params == URLQuery(r, rw.ByQueryParameter.Name)
         IN  [i \in 1..Len(params) |->
                 [value |-> params[i], source |-> RewriteValueSourceQueryParams]]
    ELSE <<>>

HeaderParameters(rw, r) ==
    IF ~rw.ByHTTPHeader.nil /\ rw.ByHTTPHeader.Name # ""
    THEN LET param == HeaderGet(r, rw.ByHTTPHeader.Name)
         IN  IF param # ""
             THEN <<[value |-> param, source |-> RewriteValueSourceHTTPHeader]>>
             ELSE <<>>
    ELSE <<>>

CollectParameters(rw, r) == QueryParameters(rw, r) \o HeaderParameters(rw, r)

\* The attributes built for one rewriteParameter; the fields are evaluated in
\* the order written, so a panic in one of them ends the call.
RewrittenAttributes(c, u, apiVerb, p) ==
    LET rewriteTargets ==
            IF p.source = RewriteValueSourceQueryParams
            THEN c.Rewrites.ByQueryParameter.RewriteTargets
            ELSE IF p.source = RewriteValueSourceHTTPHeader
            THEN c.Rewrites.ByHTTPHeader.RewriteTargets
            ELSE Slice(<<>>)
        ra == c.ResourceAttributes
        ns == templateWithValue(Namespace, ra.Namespace, p.value, rewriteTargets)
        ag == templateWithValue(ApiGroup, ra.APIGroup, p.value, rewriteTargets)
        av == templateWithValue(APIVersion, ra.APIVersion, p.value, rewriteTargets)
        re == templateWithValue(Resource, ra.Resource, p.value, rewriteTargets)
        su == templateWithValue(Subresource, ra.Subresource, p.value, rewriteTargets)
        nm == templateWithValue(Name, ra.Name, p.value, rewriteTargets)
    IN  IF ns.panic \/ ag.panic \/ av.panic \/ re.panic \/ su.panic \/ nm.panic
        THEN [panic |-> TRUE, attrs |-> <<>>]
        ELSE [panic |-> FALSE,
              attrs |-> <<AttributesRecord(u, apiVerb, ns.out, ag.out, av.out, re.out,
                                           su.out, nm.out, TRUE, "")>>]

\* for _, p := range parameters { ...; allAttrs = append(allAttrs, attrs) }
RECURSIVE RewriteLoop(_, _, _, _, _, _)
RewriteLoop(c, u, apiVerb, parameters, i, allAttrs) ==
    IF i > Len(parameters) THEN [panic |-> FALSE, attrs |-> allAttrs]
    ELSE LET one == RewrittenAttributes(c, u, apiVerb, parameters[i])
         IN  IF one.panic THEN one
             ELSE RewriteLoop(c, u, apiVerb, parameters, i + 1, allAttrs \o one.attrs)

\* The branch "n.authzConfig.Rewrites == nil": the template, copied.
TemplateAttributes(c, u, apiVerb) ==
    LET ra == c.ResourceAttributes
    IN  [panic |-> FALSE,
         attrs |-> <<AttributesRecord(u, apiVerb, ra.Namespace, ra.APIGroup, ra.APIVersion,
                                      ra.Resource, ra.Subresource, ra.Name, TRUE, "")>>]

\* Faulty variant: a request without parameters falls back to the template.
RewriteAttributesFallBack(c, u, apiVerb, r) ==
    LET parameters == CollectParameters(c.Rewrites, r)
    IN  IF Len(parameters) = 0
        THEN TemplateAttributes(c, u, apiVerb)
        ELSE RewriteLoop(c, u, apiVerb, parameters, 1, <<>>)

\* The branch "n.authzConfig.Rewrites != nil".
RewriteAttributes(c, u, apiVerb, r) ==
    LET parameters == CollectParameters(c.Rewrites, r)
    IN  IF Len(parameters) = 0
        THEN [panic |-> FALSE, attrs |-> <<>>]
        ELSE RewriteLoop(c, u, apiVerb, parameters, 1, <<>>)

\* Faulty variant: the path is left out.
NonResourceAttributesNoPath(u, apiVerb, r) ==
    [panic |-> FALSE,
     attrs |-> <<AttributesRecord(u, apiVerb, "", "", "", "", "", "", FALSE, "")>>]

\* The branch "n.authzConfig.ResourceAttributes == nil".
NonResourceAttributes(u, apiVerb, r) ==
    [panic |-> FALSE,
     attrs |-> <<AttributesRecord(u, apiVerb, "", "", "", "", "", "", FALSE, r.Path)>>]

\* func (n krpAuthorizerAttributesGetter) GetRequestAttributes(u user.Info, r *http.Request) []authorizer.Attributes
GetRequestAttributes(c, u, r) ==
    LET apiVerb == ApiVerb(r.Method)
    IN  IF ~c.ResourceAttributes.nil
        THEN IF ~c.Rewrites.nil
             THEN RewriteAttributes(c, u, apiVerb, r)
             ELSE TemplateAttributes(c, u, apiVerb)
        ELSE NonResourceAttributes(u, apiVerb, r)

(***************************************************************************)
(* proxy.go: Handle.  The authenticator and the authorizer are external    *)
(* collaborators: Handle blocks in each call to them, and what they answer *)
(* is an input of the step that resumes it.  Handle keeps nothing from one  *)
(* request to the next, so a behaviour follows one request.                *)
(***************************************************************************)
VARIABLES
    cfg,        \* the authz.Config object, as InitConfig left it
    loaded,     \* the authz.Config as read from the configuration file
    initBy,     \* which InitConfig ran: "none", "InitConfig", "InitConfigEarlier"
    initRet,    \* what it returned: [retNil, err, panic]
    headerCfg,  \* h.Config.Authentication.Header
    pc,         \* Handle's position: "idle", "authorize", "returned", "panicked"
    req,        \* the request being handled
    authn,      \* what AuthenticateRequest answered: [ok, err]
    user,       \* u.User
    allAttrs,   \* the attributes GetRequestAttributes returned
    idx,        \* position of the range loop over allAttrs
    calls,      \* the calls of h.Authorize made for this request, in order
    resp,       \* the status codes written to w, in order
    ret,        \* Handle's return value: "none", "true", "false"
    reqHeader   \* the headers Handle set on req

vars ==
    <<cfg, loaded, initBy, initRet, headerCfg, pc, req, authn, user, allAttrs, idx,
      calls, resp, ret, reqHeader>>

StatusBadRequest == 400
StatusUnauthorized == 401
StatusForbidden == 403
StatusInternalServerError == 500

DecisionAllow == "Allow"
DecisionDeny == "Deny"
DecisionNoOpinion == "NoOpinion"

\* (authorized, reason, err) of h.Authorize, the reason left out.
AuthorizerOutcomes ==
    [decision : {DecisionAllow, DecisionDeny, DecisionNoOpinion}, err : BOOLEAN]

\* (u, ok, err) of h.AuthenticateRequest.
AuthenticatorOutcomes == [ok : BOOLEAN, err : BOOLEAN]

NilUser == [name |-> "", groups |-> <<>>]
Users == {[name |-> "alice", groups |-> <<"dev", "ops">>]}

HeaderConfigs ==
    [Enabled : BOOLEAN, UserFieldName : {"x-remote-user"},
     GroupsFieldName : {"x-remote-groups"}, GroupSeparator : {"|"}]

\* Method and path of a request: a listed method and one that is not.
RequestLines ==
    {[Method |-> "GET", Path |-> "/metrics"], [Method |-> "HEAD", Path |-> "/healthz"]}
QueryValues == {"a", "b"}
HeaderValues == {"", "h"}

Requests ==
    {[Method |-> l.Method, Path |-> l.Path, Query |-> q, Header |-> h] :
        l \in RequestLines, q \in SeqsUpTo(QueryValues, MaxParams), h \in HeaderValues}

\* The requests of every method: the five methods of the switch and one that
\* is not among them, each carrying up to MaxParams occurrences of the query
\* parameter, all of one value.
MethodLines ==
    {[Method |-> "GET", Path |-> "/metrics"], [Method |-> "POST", Path |-> "/metrics"],
     [Method |-> "PUT", Path |-> "/metrics"], [Method |-> "PATCH", Path |-> "/healthz"],
     [Method |-> "DELETE", Path |-> "/healthz"], [Method |-> "HEAD", Path |-> "/healthz"]}
MethodRequests ==
    {[Method |-> l.Method, Path |-> l.Path, Query |-> q, Header |-> h] :
        l \in MethodLines, q \in SeqsUpTo({"a"}, MaxParams), h \in HeaderValues}

NoRequest == [Method |-> "", Path |-> "", Query |-> <<>>, Header |-> ""]
NoAuthn == [ok |-> FALSE, err |-> FALSE]

\* strings.Join(elems, sep)
RECURSIVE Join(_, _)
Join(elems, sep) ==
    IF Len(elems) = 0 THEN ""
    ELSE IF Len(elems) = 1 THEN elems[1]
    ELSE elems[1] \o sep \o Join(Tail(elems), sep)

\* req.Header.Set of the two identity headers, when enabled.
IdentityHeaders(h, u) ==
    IF h.Enabled
    THEN {[name |-> h.UserFieldName, value |-> u.name],
          [name |-> h.GroupsFieldName, value |-> Join(u.groups, h.GroupSeparator)]}
    ELSE {}

Init ==
    /\ cfg \in RawConfigs
    /\ loaded = cfg
    /\ initBy = "none"
    /\ initRet = [retNil |-> TRUE, err |-> "nil", panic |-> FALSE]
    /\ headerCfg \in HeaderConfigs
    /\ pc = "idle"
    /\ req = NoRequest
    /\ authn = NoAuthn
    /\ user = NilUser
    /\ allAttrs = <<>>
    /\ idx = 0
    /\ calls = <<>>
    /\ resp = <<>>
    /\ ret = "none"
    /\ reqHeader = {}

handleVars == <<pc, req, authn, user, allAttrs, idx, calls, resp, ret, reqHeader>>

\* Startup calls InitConfig on the loaded configuration.
CallInitConfig ==
    /\ initBy = "none"
    /\ LET r == InitConfig(cfg)
       IN  /\ cfg' = r.cfg
           /\ initRet' = [retNil |-> r.retNil, err |-> r.err, panic |-> r.panic]
    /\ initBy' = "InitConfig"
    /\ UNCHANGED <<loaded, headerCfg, handleVars>>

CallInitConfigEarlier ==
    /\ initBy = "none"
    /\ LET r == InitConfigEarlier(cfg)
       IN  /\ cfg' = r.cfg
           /\ initRet' = [retNil |-> r.retNil, err |-> r.err, panic |-> r.panic]
    /\ initBy' = "InitConfigEarlier"
    /\ UNCHANGED <<loaded, headerCfg, handleVars>>

\* The proxy serves once InitConfig (the variant that reports errors, which
\* is the one the request gate is built against) has returned the configuration.
Serving == initBy = "InitConfig" /\ ~initRet.panic /\ ~initRet.retNil /\ initRet.err = "nil"

\* Faulty variant: success=false is not looked at.
UnauthenticatedErrOnly(a) == a.err

\* "if err != nil { ... 401 }  if !ok { ... 401 }": the request is turned away.
Unauthenticated(a) == a.err \/ ~a.ok

\* Faulty variant: only Deny is refused.
AuthorizeStatusNoOpinionPasses(o) ==
    IF o.err THEN StatusInternalServerError
    ELSE IF o.decision = DecisionDeny THEN StatusForbidden
    ELSE 0

\* Faulty variant: the decision is looked at before the error.
AuthorizeStatusDecisionFirst(o) ==
    IF o.decision # DecisionAllow THEN StatusForbidden
    ELSE IF o.err THEN StatusInternalServerError
    ELSE 0

\* What one iteration answers to (authorized, reason, err): the status it
\* writes, or 0 when it writes none and the loop goes on.
AuthorizeStatus(o) ==
    IF o.err THEN StatusInternalServerError
    ELSE IF o.decision # DecisionAllow THEN StatusForbidden
    ELSE 0

\* http.Error(w, msg, code); return false
Reject(code) ==
    /\ resp' = Append(resp, code)
    /\ ret' = "false"
    /\ pc' = "returned"

\* Handle, from its entry to its first call of h.Authorize (or to its return).
HandleAuthenticate(r, a, u) ==
    /\ Serving
    /\ pc = "idle"
    /\ req' = r
    /\ authn' = a
    /\ calls' = <<>>
    /\ reqHeader' = {}
    /\ IF Unauthenticated(a)
       THEN /\ resp' = <<StatusUnauthorized>>
            /\ ret' = "false"
            /\ pc' = "returned"
            /\ user' = NilUser
            /\ allAttrs' = <<>>
            /\ idx' = 0
       ELSE LET g == GetRequestAttributes(cfg, u, r)
            IN  /\ user' = u
                /\ IF g.panic
                   THEN /\ pc' = "panicked"
                        /\ resp' = <<>>
                        /\ ret' = "none"
                        /\ allAttrs' = <<>>
                        /\ idx' = 0
                   ELSE IF Len(g.attrs) = 0
                   THEN /\ resp' = <<StatusBadRequest>>
                        /\ ret' = "false"
                        /\ pc' = "returned"
                        /\ allAttrs' = g.attrs
                        /\ idx' = 0
                   ELSE /\ resp' = <<>>
                        /\ ret' = "none"
                        /\ pc' = "authorize"
                        /\ allAttrs' = g.attrs
                        /\ idx' = 1
    /\ UNCHANGED <<cfg, loaded, initBy, initRet, headerCfg>>

\* One iteration of "for _, attrs := range allAttrs", and what follows the
\* loop when it was the last one.
HandleAuthorize(o) ==
    /\ pc = "authorize"
    /\ calls' = Append(calls, [pos |-> idx, attrs |-> allAttrs[idx],
                               decision |-> o.decision, err |-> o.err])
    /\ IF AuthorizeStatus(o) # 0
       THEN Reject(AuthorizeStatus(o)) /\ UNCHANGED <<idx, reqHeader>>
       ELSE IF idx < Len(allAttrs)
       THEN idx' = idx + 1 /\ UNCHANGED <<pc, resp, ret, reqHeader>>
       ELSE /\ reqHeader' = IdentityHeaders(headerCfg, user)
            /\ ret' = "true"
            /\ pc' = "returned"
            /\ UNCHANGED <<idx, resp>>
    /\ UNCHANGED <<cfg, loaded, initBy, initRet, headerCfg, req, authn, user, allAttrs>>

Next ==
    \/ CallInitConfig
    \/ CallInitConfigEarlier
    \/ \E r \in Requests, a \in AuthenticatorOutcomes, u \in Users : HandleAuthenticate(r, a, u)
    \/ \E o \in AuthorizerOutcomes : HandleAuthorize(o)

Spec == Init /\ [][Next]_vars

\* The proxy of InitConfig, serving the requests of every method.
NextMethods ==
    \/ CallInitConfig
    \/ \E r \in MethodRequests, a \in AuthenticatorOutcomes, u \in Users :
           HandleAuthenticate(r, a, u)
    \/ \E o \in AuthorizerOutcomes : HandleAuthorize(o)

SpecMethods == Init /\ [][NextMethods]_vars

(***************************************************************************)
(* Properties.                                                             *)
(***************************************************************************)
\* The authenticator answered, and answered with an identity.
Authenticated == pc # "idle" /\ authn.ok /\ ~authn.err
\* The authenticator answered with an error or with success=false.
AuthenticationFailed == pc # "idle" /\ (authn.err \/ ~authn.ok)

\* The j-th call of the authorizer was answered Allow without error.
CleanAllow(j) == calls[j].decision = DecisionAllow /\ ~calls[j].err

C2_Unauthenticated401 ==
    AuthenticationFailed =>
        /\ pc = "returned"
        /\ resp = <<StatusUnauthorized>>
        /\ ret = "false"
        /\ allAttrs = <<>>
        /\ calls = <<>>
        /\ reqHeader = {}

\* success=false without an error, identity headers enabled, a request that
\* would have resolved attributes.
C2_Witness ==
    /\ AuthenticationFailed
    /\ ~authn.ok /\ ~authn.err
    /\ headerCfg.Enabled
    /\ cfg.ResourceAttributes.nil
    /\ resp = <<StatusUnauthorized>>

\* The request carries no value for the rewrite rules of the configuration:
\* the configured query parameter does not occur and the configured header is
\* absent.
NoRewriteParameter ==
    /\ cfg.Rewrites.ByQueryParameter.nil
          \/ Len(URLQuery(req, cfg.Rewrites.ByQueryParameter.Name)) = 0
    /\ cfg.Rewrites.ByHTTPHeader.nil
          \/ HeaderGet(req, cfg.Rewrites.ByHTTPHeader.Name) = ""

\* C3: with a template and a rewrite block configured, an authenticated
\* request that yields no rewrite parameter gets an empty sequence from
\* GetRequestAttributes, and Handle writes 400 and returns false without
\* calling the authorizer.
C3_NoParameters400 ==
    (Authenticated /\ ~cfg.ResourceAttributes.nil /\ ~cfg.Rewrites.nil /\ NoRewriteParameter) =>
        /\ GetRequestAttributes(cfg, user, req) = [panic |-> FALSE, attrs |-> <<>>]
        /\ pc = "returned"
        /\ allAttrs = <<>>
        /\ resp = <<StatusBadRequest>>
        /\ ret = "false"
        /\ calls = <<>>

\* Scenario B: a header rule targeting the namespace, a request without the header.
C3_Witness ==
    /\ Authenticated
    /\ ~cfg.ResourceAttributes.nil
    /\ ~cfg.Rewrites.nil
    /\ cfg.Rewrites.ByQueryParameter.nil
    /\ cfg.Rewrites.ByHTTPHeader.Name = "X-Proj"
    /\ cfg.Rewrites.ByHTTPHeader.RewriteTargets = Slice(<<Namespace>>)
    /\ req.Header = ""
    /\ resp = <<StatusBadRequest>>

\* C4: at the first authorizer answer that is not Allow without error, Handle
\* has written exactly one response and returned false: 500 when the answer
\* carries an error, whatever its decision, and 403 when it is Deny or
\* NoOpinion without error.
C4_FirstFailureStatus ==
    \A j \in 1..Len(calls) :
        ~CleanAllow(j) =>
            /\ pc = "returned"
            /\ ret = "false"
            /\ Len(resp) = 1
            /\ calls[j].err => resp[1] = StatusInternalServerError
            /\ ~calls[j].err => resp[1] = StatusForbidden

\* An error that comes with decision Allow, on the second set: 500.
C4_Witness ==
    /\ Len(calls) = 2
    /\ calls[2].decision = DecisionAllow /\ calls[2].err
    /\ resp = <<StatusInternalServerError>>
    /\ ret = "false"

\* The elements of a []string.
Elems(t) == {t.elems[i] : i \in 1..Len(t.elems)}

\* The six-field vocabulary.
Vocabulary == Elems(Slice(allResourceAttributesNames))

\* The call returned the configuration and no error.
InitSucceeded == initBy # "none" /\ ~initRet.panic /\ ~initRet.retNil /\ initRet.err = "nil"
\* The call returned an error and no configuration.
InitFailed == initBy # "none" /\ ~initRet.panic /\ initRet.retNil /\ initRet.err # "nil"

\* The rules of the configuration file.
LoadedQuery == loaded.Rewrites.ByQueryParameter
LoadedHeader == loaded.Rewrites.ByHTTPHeader
BothConfigured == ~loaded.Rewrites.nil /\ ~LoadedQuery.nil /\ ~LoadedHeader.nil
OnlyQueryConfigured == ~loaded.Rewrites.nil /\ ~LoadedQuery.nil /\ LoadedHeader.nil
OnlyHeaderConfigured == ~loaded.Rewrites.nil /\ LoadedQuery.nil /\ ~LoadedHeader.nil

\* Both rules carry an explicit non-empty list, and the lists share no name.
ExplicitAndDisjoint ==
    /\ ~LoadedQuery.RewriteTargets.nil /\ Len(LoadedQuery.RewriteTargets.elems) > 0
    /\ ~LoadedHeader.RewriteTargets.nil /\ Len(LoadedHeader.RewriteTargets.elems) > 0
    /\ Elems(LoadedQuery.RewriteTargets) \cap Elems(LoadedHeader.RewriteTargets) = {}

\* C5: with both rules configured, InitConfig succeeds iff both carry an
\* explicit non-empty target list and the two lists share no field name; in
\* every other case it returns an error and no config.
C5_BothRulesValidated ==
    (initBy = "InitConfig" /\ BothConfigured) =>
        /\ ExplicitAndDisjoint => InitSucceeded
        /\ ~ExplicitAndDisjoint => InitFailed

\* Both rules configured on disjoint targets, accepted.
C5_Witness ==
    /\ initBy = "InitConfig"
    /\ BothConfigured
    /\ LoadedQuery.RewriteTargets = Slice(<<Namespace>>)
    /\ LoadedHeader.RewriteTargets = Slice(<<Name>>)
    /\ InitSucceeded

\* The one rule of a configuration with exactly one rule: as loaded, and as
\* the call left it.
TheRule(c) ==
    IF ~c.Rewrites.ByQueryParameter.nil THEN c.Rewrites.ByQueryParameter
    ELSE c.Rewrites.ByHTTPHeader

DefaultFilled(rule) ==
    /\ rule.RewriteTargets = Slice(allResourceAttributesNames)
    /\ rule.rewriteTargetsSet = MakeMap(Vocabulary)

\* C6: with exactly one rule configured and its target list omitted,
\* InitConfig completes successfully and the rule's list and materialized set
\* are the six field names; an explicitly given list is left as given.
C6_DefaultTargetFill ==
    (initBy # "none" /\ (OnlyQueryConfigured \/ OnlyHeaderConfigured)) =>
        /\ TheRule(loaded).RewriteTargets.nil =>
               InitSucceeded /\ DefaultFilled(TheRule(cfg))
        /\ ~TheRule(loaded).RewriteTargets.nil =>
               TheRule(cfg).RewriteTargets = TheRule(loaded).RewriteTargets

\* The same, of the InitConfig that reports errors alone.
DefaultTargetFillOfInitConfig == initBy = "InitConfig" => C6_DefaultTargetFill

\* C7, as claimed: after InitConfig returns successfully, both materialized
\* target sets hold only names of the six-field vocabulary.
C7_TargetSetsInVocabulary ==
    (initBy = "InitConfig" /\ InitSucceeded) =>
        /\ cfg.Rewrites.ByQueryParameter.rewriteTargetsSet.keys \subseteq Vocabulary
        /\ cfg.Rewrites.ByHTTPHeader.rewriteTargetsSet.keys \subseteq Vocabulary

\* The set of a rule is unset, or holds exactly the names of the rule's list,
\* and so lies in the vocabulary when the list of the file does.
SetMirrorsList(rule, fileRule) ==
    /\ \/ rule.rewriteTargetsSet = NilMap
       \/ rule.rewriteTargetsSet = MakeMap(Elems(rule.RewriteTargets))
    /\ Elems(fileRule.RewriteTargets) \subseteq Vocabulary =>
           rule.rewriteTargetsSet.keys \subseteq Vocabulary

\* C7, amended: after InitConfig returns successfully, every materialized
\* target set holds exactly the names of its rule's target list (the six
\* field names when the list was defaulted); the names are not checked, so a
\* set lies in the six-field vocabulary whenever the configured list does.
C7_TargetSetsMirrorLists ==
    (initBy = "InitConfig" /\ InitSucceeded) =>
        /\ SetMirrorsList(cfg.Rewrites.ByQueryParameter, LoadedQuery)
        /\ SetMirrorsList(cfg.Rewrites.ByHTTPHeader, LoadedHeader)

\* A single rule whose list names a field outside the vocabulary, accepted.
C7_Witness ==
    /\ initBy = "InitConfig"
    /\ InitSucceeded
    /\ OnlyQueryConfigured
    /\ cfg.Rewrites.ByQueryParameter.rewriteTargetsSet = MakeMap({"bogus"})

\* The six resource fields and ResourceRequest of an attribute set.
ResourceFields(a) ==
    <<a.Namespace, a.APIGroup, a.APIVersion, a.Resource, a.Subresource, a.Name,
      a.ResourceRequest>>

\* C8: with a template configured and no rewrite configuration present (the
\* rewrite block absent, or carrying neither rule), GetRequestAttributes
\* returns exactly one attribute set, ResourceRequest=true, its six resource
\* fields copied from the template.
C8_TemplateVerbatim ==
    LET ra == cfg.ResourceAttributes
        rw == cfg.Rewrites
    IN  (Authenticated /\ ~ra.nil /\ (rw.nil \/ (rw.ByQueryParameter.nil /\ rw.ByHTTPHeader.nil))) =>
            /\ Len(allAttrs) = 1
            /\ ResourceFields(allAttrs[1]) =
                   <<ra.Namespace, ra.APIGroup, ra.APIVersion, ra.Resource, ra.Subresource,
                     ra.Name, TRUE>>

\* The same, when the rewrite block is absent.
TemplateVerbatimWithoutRewriteBlock == cfg.Rewrites.nil => C8_TemplateVerbatim

\* C9: with no template configured, GetRequestAttributes returns exactly one
\* attribute set, ResourceRequest=false, the six resource fields empty and
\* Path the request path, whatever the rewrite configuration, the query and
\* the headers; the request is not answered 400.
C9_NonResourceAttributes ==
    (Authenticated /\ cfg.ResourceAttributes.nil) =>
        /\ Len(allAttrs) = 1
        /\ ResourceFields(allAttrs[1]) = <<"", "", "", "", "", "", FALSE>>
        /\ allAttrs[1].Path = req.Path
        /\ \A k \in 1..Len(resp) : resp[k] # StatusBadRequest

\* No template, both rules configured, a request carrying two query values
\* and the header: still one non-resource set, allowed.
C9_Witness ==
    /\ Authenticated
    /\ cfg.ResourceAttributes.nil
    /\ BothConfigured
    /\ Len(req.Query) = 2
    /\ req.Header # ""
    /\ req.Path = "/healthz"
    /\ Len(allAttrs) = 1
    /\ ret = "true"

\* The occurrences of the configured query parameter, and the configured
\* header's value when the request carries one.
QueryOccurrences ==
    IF ~cfg.Rewrites.ByQueryParameter.nil /\ cfg.Rewrites.ByQueryParameter.Name # ""
    THEN URLQuery(req, cfg.Rewrites.ByQueryParameter.Name)
    ELSE <<>>
HeaderOccurrence ==
    IF ~cfg.Rewrites.ByHTTPHeader.nil /\ cfg.Rewrites.ByHTTPHeader.Name # ""
          /\ HeaderGet(req, cfg.Rewrites.ByHTTPHeader.Name) # ""
    THEN <<HeaderGet(req, cfg.Rewrites.ByHTTPHeader.Name)>>
    ELSE <<>>

\* One set per collected parameter, in collection order.  The name template
\* is the placeholder, so a set whose source targets the name carries the
\* value it was built from.
OnePerParameterInOrder ==
    LET nq == Len(QueryOccurrences)
    IN  /\ Len(allAttrs) = nq + Len(HeaderOccurrence)
        /\ \A i \in 1..Len(allAttrs) :
               /\ (i <= nq /\ Name \in Elems(cfg.Rewrites.ByQueryParameter.RewriteTargets)) =>
                      allAttrs[i].Name = QueryOccurrences[i]
               /\ (i > nq /\ Name \in Elems(cfg.Rewrites.ByHTTPHeader.RewriteTargets)) =>
                      allAttrs[i].Name = HeaderOccurrence[1]

\* C10: with a template and rewrite configured, GetRequestAttributes returns
\* exactly one attribute set per collected rewrite parameter, in collection
\* order: one per occurrence of the query parameter as received, then one for
\* the header when the request carries it.
C10_OnePerParameterInOrder ==
    (Authenticated /\ ~cfg.ResourceAttributes.nil /\ ~cfg.Rewrites.nil) =>
        /\ pc # "panicked"
        /\ OnePerParameterInOrder

\* The same, of the calls of GetRequestAttributes that return.
OnePerParameterInOrderWhenReturned ==
    (Authenticated /\ ~cfg.ResourceAttributes.nil /\ ~cfg.Rewrites.nil /\ pc # "panicked") =>
        OnePerParameterInOrder

\* The field of an attribute set, and the template string of the
\* configuration, that go by one of the six attribute names.
FieldOf(a, f) ==
    CASE f = Namespace -> a.Namespace
      [] f = ApiGroup -> a.APIGroup
      [] f = APIVersion -> a.APIVersion
      [] f = Resource -> a.Resource
      [] f = Subresource -> a.Subresource
      [] f = Name -> a.Name
TemplateOf(ra, f) == FieldOf(ra, f)

\* What executing a template string with a value writes: the value for the
\* placeholder, the text itself for a text without actions, and for a text
\* followed by a field the data does not have, the text written before the
\* execution stopped.
Rendered(t, v) ==
    CASE t = "{{.Value}}" -> v
      [] t = "x{{.Foo}}" -> "x"
      [] OTHER -> t

\* The rewriteParameter the i-th attribute set was built from, and the
\* target list of its source.
ProducedFrom(i) ==
    IF i <= Len(QueryOccurrences)
    THEN [value |-> QueryOccurrences[i], source |-> RewriteValueSourceQueryParams]
    ELSE [value |-> HeaderOccurrence[1], source |-> RewriteValueSourceHTTPHeader]
TargetsOf(source) ==
    IF source = RewriteValueSourceQueryParams
    THEN Elems(cfg.Rewrites.ByQueryParameter.RewriteTargets)
    ELSE Elems(cfg.Rewrites.ByHTTPHeader.RewriteTargets)
OtherSource(source) ==
    IF source = RewriteValueSourceQueryParams
    THEN RewriteValueSourceHTTPHeader
    ELSE RewriteValueSourceQueryParams

\* The values the request carries for a source.
CapturedFrom(source) ==
    IF source = RewriteValueSourceQueryParams
    THEN {QueryOccurrences[k] : k \in 1..Len(QueryOccurrences)}
    ELSE {HeaderOccurrence[k] : k \in 1..Len(HeaderOccurrence)}

UnderRewrite == Authenticated /\ ~cfg.ResourceAttributes.nil /\ ~cfg.Rewrites.nil

\* C11: in every attribute set produced under rewrite, a field outside the
\* target list of the source that produced the set is the template string
\* verbatim, and a field inside it is the template executed with the value of
\* the one parameter the set was built from; with both sources configured on
\* disjoint targets, no field targeted by one source only holds a value
\* captured from the other source (the values of the two sources being
\* distinct from each other and from the template strings).
C11_RewriteOnlyOwnTargets ==
    UnderRewrite =>
        \A i \in 1..Len(allAttrs) :
            LET p == ProducedFrom(i)
            IN  \A f \in Vocabulary :
                    /\ f \notin TargetsOf(p.source) =>
                           FieldOf(allAttrs[i], f) = TemplateOf(cfg.ResourceAttributes, f)
                    /\ f \in TargetsOf(p.source) =>
                           FieldOf(allAttrs[i], f) =
                               Rendered(TemplateOf(cfg.ResourceAttributes, f), p.value)
                    /\ (BothConfigured /\ f \in TargetsOf(OtherSource(p.source))
                            /\ f \notin TargetsOf(p.source)) =>
                           \A j \in 1..Len(allAttrs) :
                               FieldOf(allAttrs[j], f) \notin CapturedFrom(p.source)

\* Query parameter on the namespace, header on the name, a request carrying
\* both: two sets, each rewriting its own field and leaving the other's
\* template as written.
C11_Witness ==
    /\ UnderRewrite
    /\ BothConfigured
    /\ TargetsOf(RewriteValueSourceQueryParams) = {Namespace}
    /\ TargetsOf(RewriteValueSourceHTTPHeader) = {Name}
    /\ cfg.ResourceAttributes.Namespace = "{{.Value}}"
    /\ req.Query = <<"a">>
    /\ req.Header = "h"
    /\ Len(allAttrs) = 2
    /\ allAttrs[1].Namespace = "a" /\ allAttrs[1].Name = "{{.Value}}"
    /\ allAttrs[2].Namespace = "{{.Value}}" /\ allAttrs[2].Name = "h"

\* The table of method and verb.
VerbTable ==
    {<<"POST", "create">>, <<"GET", "get">>, <<"PUT", "update">>, <<"PATCH", "patch">>,
     <<"DELETE", "delete">>}
VerbOf(method) ==
    IF \E e \in VerbTable : e[1] = method
    THEN (CHOOSE e \in VerbTable : e[1] = method)[2]
    ELSE ""

\* What GetRequestAttributes answers to the same request sent with GET.
SentWithGet == GetRequestAttributes(cfg, user, [req EXCEPT !.Method = "GET"])

\* C12: every attribute set GetRequestAttributes produces, in each of its
\* three modes, carries the verb the table gives for the request's method
\* and the empty verb for a method the table does not list; the method
\* decides nothing else: the call produces the attribute sets it produces
\* for the same request sent with GET, the verb apart.
C12_VerbTable ==
    Authenticated =>
        /\ \A i \in 1..Len(allAttrs) : allAttrs[i].Verb = VerbOf(req.Method)
        /\ (pc = "panicked") = SentWithGet.panic
        /\ Len(allAttrs) = Len(SentWithGet.attrs)
        /\ \A i \in 1..Len(allAttrs) :
               [allAttrs[i] EXCEPT !.Verb = "get"] = SentWithGet.attrs[i]

\* A HEAD request under rewrite, carrying two values of the query parameter:
\* two attribute sets with the empty verb, both authorized.
C12_Witness ==
    /\ UnderRewrite
    /\ req.Method = "HEAD"
    /\ Len(req.Query) = 2
    /\ Len(allAttrs) = 2
    /\ allAttrs[1].Verb = "" /\ allAttrs[2].Verb = ""
    /\ ret = "true"

\* The sources of the parameters collected from the request, in order.
CollectedSources ==
    [k \in 1..Len(QueryOccurrences) |-> RewriteValueSourceQueryParams]
        \o [k \in 1..Len(HeaderOccurrence) |-> RewriteValueSourceHTTPHeader]

\* The namespace template does not parse, or parses and cannot be executed.
Unparsable(t) == t = "{{"
Unrenderable(t) == t = "x{{.Foo}}"
NamespaceActive ==
    \E k \in 1..Len(CollectedSources) : Namespace \in TargetsOf(CollectedSources[k])

\* What GetRequestAttributes answers to the request when the namespace
\* template is a well-formed one.
WithWellFormedNamespace ==
    GetRequestAttributes([cfg EXCEPT !.ResourceAttributes.Namespace = "default"], user, req)

\* Every attribute set but for its namespace: the call returns, and returns
\* what it returns with a well-formed namespace template.
OnlyNamespaceAffected ==
    /\ pc # "panicked"
    /\ Len(allAttrs) = Len(WithWellFormedNamespace.attrs)
    /\ \A i \in 1..Len(allAttrs) :
           [allAttrs[i] EXCEPT !.Namespace = ""] =
               [WithWellFormedNamespace.attrs[i] EXCEPT !.Namespace = ""]

\* C13: when the template string of a field in the active target set (here
\* the namespace) is malformed, it cannot be parsed or cannot be rendered,
\* only that field's render fails: the other five fields of the same
\* attribute set, and every other attribute set of the request, have the
\* values they have when that field's template is well-formed.
C13_MalformedTemplateIsolated ==
    (UnderRewrite /\ NamespaceActive
        /\ (Unparsable(cfg.ResourceAttributes.Namespace)
               \/ Unrenderable(cfg.ResourceAttributes.Namespace))) =>
        OnlyNamespaceAffected

\* The same, of a template that parses and cannot be rendered.
UnrenderableTemplateIsolated ==
    (UnderRewrite /\ NamespaceActive /\ Unrenderable(cfg.ResourceAttributes.Namespace)) =>
        OnlyNamespaceAffected

\* A template that does not parse, in the active target set: the call panics.
UnparsableTemplatePanics ==
    (UnderRewrite /\ NamespaceActive /\ Unparsable(cfg.ResourceAttributes.Namespace)) =>
        pc = "panicked"

=============================================================================
